---------------------------- MODULE Spec2Model ----------------------------
(***************************************************************************)
(* Model of the Slack poetry bot (cuevaio/slack-bot).                      *)
(*                                                                         *)
(*   src/unnamed/part_001   verifySlackRequest (lib/verify-slack-request)  *)
(*   src/src/index.ts       POST /custom-bot/events, POST /api/process-message *)
(*                                                                         *)
(* Strings are sequences of one-character strings, so that trimming,       *)
(* parseInt, the mention regex and the hex rendering are computed          *)
(* character by character as the JavaScript does.                          *)
(***************************************************************************)
EXTENDS Integers, Sequences, FiniteSets, TLC

(***************************************************************************)
(* State                                                                   *)
(***************************************************************************)
VARIABLES
  env,      \* the process environment: SLACK_SIGNING_SECRET, SLACK_BOT_TOKEN
  hook,     \* the webhook invocations so far (n) and the last one: request, clock,
            \* whether its publish (if any) resolved, outcome
  queue,    \* QStash: the published messages not yet acknowledged with a 200
  workers,  \* the process-message invocations in flight; late: started after an
            \* invocation for the same event had posted; retry: started when the
            \* last invocation to finish was a failed one for the same message
  proc,     \* the process-message invocations so far (n) and the last finished one
  posts,    \* the messages chat.postMessage accepted, in order
  done,     \* the events an invocation has finished with a successful post
  probe     \* verifySlackRequest called on its own: the arguments, whether it was
            \* called and called again, and the last result

vars == <<env, hook, queue, workers, proc, posts, done, probe>>

(***************************************************************************)
(* Bounds of the model.                                                    *)
(***************************************************************************)
\* timestamps of the verifier's inputs range over Now0 - MaxSkew .. Now0 + MaxSkew
MaxSkew == 302
\* the wall clock (seconds) ranges over Now0 .. Now0 + MaxClock
MaxClock == 0
\* texts of the events of one webhook invocation: every string of at most
\* MaxTextLen characters of TextAlphabet
MaxTextLen == 4
\* invocations of the two endpoints, and concurrent process-message
\* invocations, in one behaviour of the pipeline
MaxCalls == 4
MaxWorkers == 2

\* A wall-clock reading, unix seconds (Math.floor(Date.now() / 1000)).
Now0 == 1000

(***************************************************************************)
(* JavaScript values.                                                      *)
(***************************************************************************)
\* An optional string: a header req.headers.get() may return null for, or an
\* optional field of a JSON payload (undefined when the key is missing).
Absent == [has |-> FALSE, val |-> <<>>]
Some(s) == [has |-> TRUE, val |-> s]

\* JavaScript truthiness of an optional string: null, undefined and "" are falsy.
Truthy(x) == x.has /\ x.val # <<>>

\* `${x}` of a header value: the string, or "null" for a missing header.
Template(x) == IF x.has THEN x.val ELSE <<"n", "u", "l", "l">>

\* Not-a-Number, as parseInt returns it.
NaN == [nan |-> TRUE, n |-> 0]
Num(k) == [nan |-> FALSE, n |-> k]

IsWhiteSpace(c) == c \in {" ", "\t", "\n"}
IsDigit(c) == c \in {"0", "1", "2", "3", "4", "5", "6", "7", "8", "9"}
DigitValue(c) == CASE c = "0" -> 0 [] c = "1" -> 1 [] c = "2" -> 2 [] c = "3" -> 3
                   [] c = "4" -> 4 [] c = "5" -> 5 [] c = "6" -> 6 [] c = "7" -> 7
                   [] c = "8" -> 8 [] c = "9" -> 9

\* String.prototype.trim: the string without its leading and trailing white space.
RECURSIVE TrimStart(_)
TrimStart(s) == IF s # <<>> /\ IsWhiteSpace(Head(s)) THEN TrimStart(Tail(s)) ELSE s
RECURSIVE TrimEnd(_)
TrimEnd(s) == IF s # <<>> /\ IsWhiteSpace(s[Len(s)])
              THEN TrimEnd(SubSeq(s, 1, Len(s) - 1)) ELSE s
trim(s) == TrimEnd(TrimStart(s))

\* parseInt(s, 10): skips leading white space, takes an optional sign and the
\* longest run of decimal digits, ignores what follows; NaN when there is no digit.
RECURSIVE DigitRun(_, _)
DigitRun(s, acc) == IF s # <<>> /\ IsDigit(Head(s))
                    THEN DigitRun(Tail(s), 10 * acc + DigitValue(Head(s)))
                    ELSE acc
parseInt(s) ==
  LET t == TrimStart(s)
      neg == t # <<>> /\ Head(t) = "-"
      u == IF t # <<>> /\ Head(t) \in {"-", "+"} THEN Tail(t) ELSE t
  IN IF u = <<>> \/ ~IsDigit(Head(u)) THEN NaN
     ELSE Num(IF neg THEN 0 - DigitRun(u, 0) ELSE DigitRun(u, 0))

\* Math.abs(now - ts) > limit; every comparison with NaN is false.
AbsDiffExceeds(now, ts, limit) ==
  IF ts.nan THEN FALSE
  ELSE (IF now - ts.n >= 0 THEN now - ts.n ELSE ts.n - now) > limit

(***************************************************************************)
(* verifySlackRequest, src/unnamed/part_001                                *)
(***************************************************************************)
FIVE_MINUTES == 60 * 5

\* TextEncoder.encode: the UTF-8 bytes of a string (ASCII here).
CharCode(c) == CASE c = " " -> 32 [] c = "\t" -> 9 [] c = "\n" -> 10
                 [] c = "+" -> 43 [] c = "-" -> 45 [] c = ":" -> 58
                 [] c = "0" -> 48 [] c = "1" -> 49 [] c = "2" -> 50 [] c = "3" -> 51
                 [] c = "4" -> 52 [] c = "5" -> 53 [] c = "6" -> 54 [] c = "7" -> 55
                 [] c = "8" -> 56 [] c = "9" -> 57
                 [] c = "k" -> 107 [] c = "l" -> 108 [] c = "n" -> 110
                 [] c = "u" -> 117 [] c = "v" -> 118 [] c = "x" -> 120
                 [] c = "{" -> 123 [] c = "}" -> 125
encode(s) == [i \in 1..Len(s) |-> CharCode(s[i])]

\* crypto.subtle.importKey + sign("HMAC"): the digest bytes.  HMAC-SHA256 is
\* idealised as collision free: the digest is an injective scrambling of
\* (key, message); each byte is a bijection of one input byte.
HmacSha256(key, msg) ==
  LET s == key \o <<0>> \o msg
  IN [i \in 1..Len(s) |-> (s[i] * 167 + 13 * i) % 256]

HexDigits == <<"0", "1", "2", "3", "4", "5", "6", "7",
               "8", "9", "a", "b", "c", "d", "e", "f">>
\* Number.prototype.toString(16) of a byte: one or two lowercase digits.
toString16(b) == IF b < 16 THEN <<HexDigits[b + 1]>>
                 ELSE <<HexDigits[(b \div 16) + 1], HexDigits[(b % 16) + 1]>>
\* String.prototype.padStart(2, "0")
padStart2(s) == IF Len(s) < 2 THEN <<"0">> \o s ELSE s
\* .map(...).join("")
RECURSIVE HexJoin(_)
HexJoin(bytes) == IF bytes = <<>> THEN <<>>
                  ELSE padStart2(toString16(Head(bytes))) \o HexJoin(Tail(bytes))

\* `v0:${timestamp}:${rawBody}`
baseString(timestamp, rawBody) == <<"v", "0", ":">> \o Template(timestamp) \o <<":">> \o rawBody

\* "v0=" + hex digest
mySig(timestamp, rawBody, signingSecret) ==
  <<"v", "0", "=">>
  \o HexJoin(HmacSha256(encode(signingSecret), encode(baseString(timestamp, rawBody))))

\* A verifier without the check of the headers' presence.
HeadersMissing_Never(timestamp, signature) == FALSE

\* if (!timestamp || !signature) return false;
HeadersMissing(timestamp, signature) == ~Truthy(timestamp) \/ ~Truthy(signature)

\* A verifier that rejects old timestamps only: now - ts > FIVE_MINUTES.
ReplayRejected_OldOnly(timestamp, now) ==
  LET ts == parseInt(Template(timestamp))
  IN ~ts.nan /\ now - ts.n > FIVE_MINUTES

\* A verifier whose window ends before its boundary: >= FIVE_MINUTES.
ReplayRejected_AtBoundary(timestamp, now) ==
  AbsDiffExceeds(now, parseInt(Template(timestamp)), FIVE_MINUTES - 1)

\* if (Math.abs(now - ts) > FIVE_MINUTES) return false;
ReplayRejected(timestamp, now) ==
  AbsDiffExceeds(now, parseInt(Template(timestamp)), FIVE_MINUTES)

\* return mySig === signature;
SignatureMatches(timestamp, signature, rawBody, signingSecret) ==
  signature.has /\ mySig(timestamp, rawBody, signingSecret) = signature.val

\* A verifier that remembers the requests it has seen and accepts none twice.
verifySlackRequest_Once(timestamp, signature, rawBody, signingSecret, now) ==
  IF probe.called THEN FALSE
  ELSE IF HeadersMissing(timestamp, signature) THEN FALSE
  ELSE IF ReplayRejected(timestamp, now) THEN FALSE
  ELSE SignatureMatches(timestamp, signature, rawBody, signingSecret)

verifySlackRequest(timestamp, signature, rawBody, signingSecret, now) ==
  IF HeadersMissing(timestamp, signature) THEN FALSE
  ELSE IF ReplayRejected(timestamp, now) THEN FALSE
  ELSE SignatureMatches(timestamp, signature, rawBody, signingSecret)


(***************************************************************************)
(* POST /custom-bot/events, src/src/index.ts lines 53-214                  *)
(***************************************************************************)
BOT_MESSAGE == <<"b", "o", "t", "_", "m", "e", "s", "s", "a", "g", "e">>

\* const isBotMessage = messageEvent.bot_id || messageEvent.subtype === "bot_message";
isBotMessage(event) ==
  Truthy(event.bot_id) \/ (event.subtype.has /\ event.subtype.val = BOT_MESSAGE)

\* const hasText = event.text && event.text.trim().length > 0;
\* A filter that asks for a text, blank or not.
hasText_Present(event) == Truthy(event.text)
hasText(event) == Truthy(event.text) /\ Len(trim(event.text.val)) > 0

\* A filter that takes every message as a regular one.
isRegularMessage_Always(event) == TRUE

\* const isRegularMessage = !messageEvent.subtype;
isRegularMessage(event) == ~Truthy(event.subtype)

\* The end of the match of /<@[^>]+>/ that starts at position i of s, or 0 when
\* there is none: "<@", then the longest run of characters other than ">" (at
\* least one), then ">".
RECURSIVE RunEnd(_, _)
RunEnd(s, j) == IF j <= Len(s) /\ s[j] # ">" THEN RunEnd(s, j + 1) ELSE j
MatchEnd(s, i) ==
  IF i + 1 <= Len(s) /\ s[i] = "<" /\ s[i + 1] = "@"
  THEN LET j == RunEnd(s, i + 2)
       IN IF j > i + 2 /\ j <= Len(s) THEN j ELSE 0
  ELSE 0

\* text.replace(/<@[^>]+>/g, ""): one pass from the left, every match removed,
\* the scan resuming right after each match.
RECURSIVE ReplaceFrom(_, _)
ReplaceFrom(s, i) ==
  IF i > Len(s) THEN <<>>
  ELSE LET e == MatchEnd(s, i)
       IN IF e # 0 THEN ReplaceFrom(s, e + 1)
          ELSE <<s[i]>> \o ReplaceFrom(s, i + 1)
\* The replace without the g flag: only the first match is removed.
RECURSIVE ReplaceFirstFrom(_, _)
ReplaceFirstFrom(s, i) ==
  IF i > Len(s) THEN <<>>
  ELSE LET e == MatchEnd(s, i)
       IN IF e # 0 THEN SubSeq(s, e + 1, Len(s))
          ELSE <<s[i]>> \o ReplaceFirstFrom(s, i + 1)
replaceMentions_First(s) == ReplaceFirstFrom(s, 1)

replaceMentions(s) == ReplaceFrom(s, 1)

\* const cleanText = mentionEvent.text?.replace(/<@[^>]+>/g, "").trim() || "";
cleanText(event) == IF event.text.has THEN trim(replaceMentions(event.text.val)) ELSE <<>>

\* body: JSON.stringify(messageEvent): the event as received.  A JSON round trip
\* of a record of strings keeps its fields; a missing key stays missing.
ImPayload_Trimmed(event) == [event EXCEPT !.text = Some(trim(event.text.val))]
ImPayload(event) == event
\* A mention payload that carries the cleaned text alone.
MentionPayload_NoChannel(event) ==
  [event EXCEPT !.text = Some(cleanText(event)), !.channel = ""]
\* body: JSON.stringify({ ...mentionEvent, text: cleanText })
MentionPayload(event) == [event EXCEPT !.text = Some(cleanText(event))]

\* What one invocation did: the HTTP response (status, kind of body, the challenge
\* it carries), the outbound calls it made in order, and what verifySlackRequest
\* returned to it (FALSE also when the verifier was not called).
Respond(status, kind, challenge, calls, valid) ==
  [status |-> status, kind |-> kind, challenge |-> challenge,
   calls |-> calls, valid |-> valid]

VerifyCall == [op |-> "verify"]
PublishCall(payload) == [op |-> "publish", payload |-> payload]

\* A handler that catches a rejected publish and answers 200 all the same.
PublishAndReturn_Swallowed(payload, publishOk) ==
  Respond(200, "ok", Absent, <<VerifyCall, PublishCall(payload)>>, TRUE)

\* A handler that generates and posts the reply itself before it answers, as the
\* one-phase handler of this repository's first version did.
PublishAndReturn_Inline(payload, publishOk) ==
  Respond(200, "ok", Absent,
          <<VerifyCall,
            [op |-> "generateText", prompt |-> payload.text.val],
            [op |-> "chat.postMessage", channel |-> payload.channel, text |-> <<"p">>]>>,
          TRUE)

\* await qstash.publish(...); a rejected publish is not caught: hono answers 500.
\* Otherwise the handler falls through to the final return c.json({ ok: true }).
PublishAndReturn(payload, publishOk) ==
  IF publishOk
  THEN Respond(200, "ok", Absent, <<VerifyCall, PublishCall(payload)>>, TRUE)
  ELSE Respond(500, "internal", Absent, <<VerifyCall, PublishCall(payload)>>, TRUE)

Ignore == Respond(200, "ok", Absent, <<VerifyCall>>, TRUE)

\* A direct-message branch that answers without publishing.
ImBranch_AckOnly(event, publishOk) == Ignore

\* lines 117-163: event.type === "message" && channel_type === "im"
ImBranch(event, publishOk) ==
  IF isBotMessage(event) THEN Ignore
  ELSE IF ~hasText(event) \/ ~isRegularMessage(event) THEN Ignore
  ELSE PublishAndReturn(ImPayload(event), publishOk)

\* A mention branch without the check of the cleaned text.
MentionBranch_NoEmptyCheck(event, publishOk) ==
  IF ~hasText(event) THEN Ignore
  ELSE PublishAndReturn(MentionPayload(event), publishOk)

\* lines 167-206: event.type === "app_mention"
MentionBranch(event, publishOk) ==
  IF ~hasText(event) THEN Ignore
  ELSE IF cleanText(event) = <<>> THEN Ignore
  ELSE PublishAndReturn(MentionPayload(event), publishOk)

\* A dispatch that takes a message of any channel type as a direct message.
Dispatch_AnyChannel(body, publishOk) ==
  IF body.type # "event_callback" THEN Ignore
  ELSE IF body.event.type = "message" THEN ImBranch(body.event, publishOk)
  ELSE IF body.event.type = "app_mention"
       THEN MentionBranch(body.event, publishOk)
  ELSE Ignore

\* lines 98-213: after the signature was accepted
Dispatch(body, publishOk) ==
  IF body.type # "event_callback" THEN Ignore
  ELSE IF body.event.type = "message" /\ body.event.channel_type = "im"
       THEN ImBranch(body.event, publishOk)
  ELSE IF body.event.type = "app_mention"
       THEN MentionBranch(body.event, publishOk)
  ELSE Ignore

\* A handler that takes every request as verified.
Verified_Skipped(e, req, clock) == TRUE

\* lines 86-96: the signature check
Verified(e, req, clock) ==
  verifySlackRequest(req.timestamp, req.signature, req.rawBody,
                     e.SLACK_SIGNING_SECRET.val, clock)

\* A handler that verifies the signature before it looks at the payload type.
HandleEvents_VerifyFirst(e, req, clock, publishOk) ==
  IF ~Truthy(e.SLACK_SIGNING_SECRET) \/ ~Truthy(e.SLACK_BOT_TOKEN)
  THEN Respond(500, "missing_env", Absent, <<>>, FALSE)
  ELSE IF ~Verified(e, req, clock)
  THEN Respond(401, "invalid_signature", Absent, <<VerifyCall>>, FALSE)
  ELSE IF req.body.type = "url_verification"
  THEN Respond(200, "challenge", req.body.challenge, <<VerifyCall>>, TRUE)
  ELSE Dispatch(req.body, publishOk)

\* A handler that answers the challenge before it looks at its configuration.
HandleEvents_ChallengeFirst(e, req, clock, publishOk) ==
  IF req.body.type = "url_verification"
  THEN Respond(200, "challenge", req.body.challenge, <<>>, FALSE)
  ELSE IF ~Truthy(e.SLACK_SIGNING_SECRET) \/ ~Truthy(e.SLACK_BOT_TOKEN)
  THEN Respond(500, "missing_env", Absent, <<>>, FALSE)
  ELSE IF ~Verified(e, req, clock)
  THEN Respond(401, "invalid_signature", Absent, <<VerifyCall>>, FALSE)
  ELSE Dispatch(req.body, publishOk)

\* The whole handler.
HandleEvents(e, req, clock, publishOk) ==
  IF ~Truthy(e.SLACK_SIGNING_SECRET) \/ ~Truthy(e.SLACK_BOT_TOKEN)
  THEN Respond(500, "missing_env", Absent, <<>>, FALSE)
  ELSE IF req.body.type = "url_verification"
  THEN Respond(200, "challenge", req.body.challenge, <<>>, FALSE)
  ELSE IF ~Verified(e, req, clock)
  THEN Respond(401, "invalid_signature", Absent, <<VerifyCall>>, FALSE)
  ELSE Dispatch(req.body, publishOk)


(***************************************************************************)
(* POST /api/process-message, src/src/index.ts lines 233-282               *)
(***************************************************************************)
GenerateCall(prompt) == [op |-> "generateText", prompt |-> prompt]
PostCall(channel, text) == [op |-> "chat.postMessage", channel |-> channel, text |-> text]

\* prompt: `Write a poem about the following prompt: ${event.text}`; a missing
\* text renders as "undefined".
Prompt(event) ==
  IF event.text.has THEN event.text.val
  ELSE <<"u", "n", "d", "e", "f", "i", "n", "e", "d">>

\* The response of an invocation whose generateText call returned `text` and
\* whose chat.postMessage call ended with `posted`: "ok" (result.ok is true),
\* "not_ok" (no ok in the result) or "throw" (fetch or response.json() rejected).
\* A catch block that logs the error and reports success.
CatchResponse_Swallowed(error) == 200
\* lines 277-281: the catch block answers 500, whatever was thrown.
CatchResponse(error) == 500

\* A handler that answers 200 whatever chat.postMessage returned.
AfterPost_Always200(posted) == 200
AfterPost(posted) ==
  IF posted = "ok" THEN 200
  ELSE IF posted = "not_ok" THEN 500
  ELSE CatchResponse("chat.postMessage")

(***************************************************************************)
(* The environment: Slack, the operator's configuration, the clock.        *)
(***************************************************************************)
\* The decimal rendering of a natural number, as Slack writes the timestamp header.
RECURSIVE Digits(_)
Digits(n) == IF n < 10 THEN <<HexDigits[n + 1]>>
             ELSE Digits(n \div 10) \o <<HexDigits[(n % 10) + 1]>>

\* The signature Slack sends for a body at a time, under a signing secret:
\* "v0=" and two lowercase hex digits per byte of the HMAC-SHA256 of
\* "v0:" timestamp ":" body.
RECURSIVE TwoHex(_)
TwoHex(bytes) ==
  IF bytes = <<>> THEN <<>>
  ELSE <<HexDigits[(Head(bytes) \div 16) + 1], HexDigits[(Head(bytes) % 16) + 1]>>
       \o TwoHex(Tail(bytes))
SlackSignature(secret, ts, rawBody) ==
  <<"v", "0", "=">>
  \o TwoHex(HmacSha256(encode(secret), encode(<<"v", "0", ":">> \o ts \o <<":">> \o rawBody)))

SlackSecret == <<"k">>
OtherSecret == <<"l">>
\* The request body as sent; JSON.parse(rawBody) is the payload carried beside it.
RawBodies == {<<"{", "}">>, <<"{", "x", "}">>}
RawBody == <<"{", "}">>

Envs ==
  { [SLACK_SIGNING_SECRET |-> s, SLACK_BOT_TOKEN |-> t] :
      s \in {Some(SlackSecret), Some(<<>>), Absent},
      t \in {Some(<<"x">>), Some(<<>>), Absent} }
GoodEnv == [SLACK_SIGNING_SECRET |-> Some(SlackSecret), SLACK_BOT_TOKEN |-> Some(<<"x">>)]

\* Header pairs of a webhook request: signed by Slack now, signed with another
\* secret, signed by Slack long ago (a replay), without either header, without
\* signature, and without timestamp (signed over the text "null" in its place).
Fresh == Digits(Now0)
Stale == Digits(Now0 - FIVE_MINUTES - 2)
Undated == <<"n", "u", "l", "l">>
HeaderKinds == {"valid", "forged", "replayed", "none", "unsigned", "undated"}
Headers(kind) ==
  CASE kind = "valid" ->
         [timestamp |-> Some(Fresh), signature |-> Some(SlackSignature(SlackSecret, Fresh, RawBody))]
    [] kind = "forged" ->
         [timestamp |-> Some(Fresh), signature |-> Some(SlackSignature(OtherSecret, Fresh, RawBody))]
    [] kind = "replayed" ->
         [timestamp |-> Some(Stale), signature |-> Some(SlackSignature(SlackSecret, Stale, RawBody))]
    [] kind = "none" -> [timestamp |-> Absent, signature |-> Absent]
    [] kind = "unsigned" -> [timestamp |-> Some(Fresh), signature |-> Absent]
    [] kind = "undated" ->
         [timestamp |-> Absent, signature |-> Some(SlackSignature(SlackSecret, Undated, RawBody))]

Event(type, channel_type, bot_id, subtype, text, channel) ==
  [type |-> type, channel_type |-> channel_type, bot_id |-> bot_id,
   subtype |-> subtype, text |-> text, channel |-> channel]
NoEvent == Event("", "", Absent, Absent, Absent, "")

Request(kind, type, challenge, event_id, event) ==
  [timestamp |-> Headers(kind).timestamp, signature |-> Headers(kind).signature,
   rawBody |-> RawBody,
   body |-> [type |-> type, challenge |-> challenge, event_id |-> event_id, event |-> event]]
NoRequest == Request("none", "", Absent, "", NoEvent)

Challenge == <<"a", "b", "c", "1", "2", "3">>
UrlVerification(kind) == Request(kind, "url_verification", Some(Challenge), "", NoEvent)
EventCallback(kind, event_id, event) == Request(kind, "event_callback", Absent, event_id, event)

TextAlphabet == {" ", "<", "@", ">", "a"}
Strings(n) == UNION { [1..k -> TextAlphabet] : k \in 0..n }
\* The texts of the spec's scenarios.
Hello2 == <<"<", "@", "B", "O", "T", ">", " ", "<", "@", "B", "O", "T", ">", " ",
            "h", "e", "l", "l", "o">>
Hello == <<"h", "e", "l", "l", "o">>
Sea == <<"<", "@", "U", "1", "2", "3", ">", " ", "w", "r", "i", "t", "e", " ",
          "a", "b", "o", "u", "t", " ", "t", "h", "e", " ", "s", "e", "a">>
SeaPrompt == <<"w", "r", "i", "t", "e", " ", "a", "b", "o", "u", "t", " ",
                "t", "h", "e", " ", "s", "e", "a">>
Ocean == <<"o", "c", "e", "a", "n", " ", "s", "u", "n", "s", "e", "t">>
PaddedHi == <<" ", "h", "i", " ", "\n">>
MentionHi == <<"<", "@", "U", ">", " ", "h", "i">>
MentionOnly == <<"<", "@", "B", "O", "T", ">">>
\* A text in which removing a marker leaves the characters of another one.
Nested == <<"<", "<", "@", "a", ">", "@", "b", ">">>
ScenarioTexts == {Hello2, Sea, Ocean, PaddedHi, MentionHi, MentionOnly, Nested}

Markers == {Absent, Some(<<>>), Some(<<"B">>)}
Subtypes == {Absent, Some(<<>>), Some(BOT_MESSAGE), Some(<<"j", "o", "i", "n">>)}
ClassTexts == {Absent, Some(<<>>), Some(<<" ">>), Some(PaddedHi), Some(MentionHi),
               Some(<<"<", "@", "U", ">">>)}

\* The requests of one webhook invocation:
\*  - an event callback of every shape of event, signed by Slack or forged,
\*  - a signed direct message or mention of every short text and scenario text,
\*  - every payload type under every kind of headers.
ShapeRequests ==
  { EventCallback(k, "E1", Event(ty, ct, b, st, tx, "C1")) :
      k \in {"valid", "forged"},
      ty \in {"message", "app_mention", "reaction_added"},
      ct \in {"im", "channel", ""},
      b \in Markers, st \in Subtypes, tx \in ClassTexts }
TextRequests ==
  { EventCallback("valid", "E1", Event(ty, "im", Absent, Absent, Some(tx), ch)) :
      ty \in {"message", "app_mention"},
      tx \in Strings(MaxTextLen) \cup ScenarioTexts, ch \in {"C2"} }
HeaderRequests ==
  { UrlVerification(k) : k \in HeaderKinds }
  \cup { EventCallback(k, "E1", Event("message", "im", Absent, Absent, Some(Ocean), "C1")) :
           k \in HeaderKinds }
  \cup { Request(k, "app_rate_limited", Absent, "", NoEvent) : k \in HeaderKinds }
HookRequests == ShapeRequests \cup TextRequests \cup HeaderRequests

\* The requests Slack and others send while the pipeline runs.
DirectMessage == Event("message", "im", Absent, Absent, Some(PaddedHi), "C1")
Mention == Event("app_mention", "", Absent, Absent, Some(MentionHi), "C2")
BotMention == Event("app_mention", "", Some(<<"B">>), Absent, Some(MentionHi), "C2")
SysRequests ==
  { EventCallback("valid", "E1", DirectMessage),
    EventCallback("forged", "E1", DirectMessage),
    EventCallback("valid", "E2", Mention),
    EventCallback("valid", "E3", BotMention),
    UrlVerification("none") }

\* What generateText returns to invocation k: a text of its own for every call.
Poem(k) == <<"p">> \o Digits(k)

(***************************************************************************)
(* Initial state                                                           *)
(***************************************************************************)

NoOutcome == Respond(0, "", Absent, <<>>, FALSE)
NoHook == [n |-> 0, req |-> NoRequest, clock |-> 0, publishOk |-> TRUE, out |-> NoOutcome]
NoMessage == [payload |-> NoEvent, eid |-> "", id |-> 0]
NoProc == [n |-> 0, msg |-> NoMessage, calls |-> <<>>, status |-> 0, late |-> FALSE,
           retry |-> FALSE]
NoProbe == [timestamp |-> Absent, signature |-> Absent, rawBody |-> <<>>,
            signingSecret |-> <<>>, now |-> 0, called |-> FALSE, again |-> FALSE,
            result |-> FALSE]

\* What the wall clock may read, unix seconds.
Clock == Now0..(Now0 + MaxClock)

Init ==
  /\ env \in Envs
  /\ hook = NoHook
  /\ queue = {}
  /\ workers = {}
  /\ proc = NoProc
  /\ posts = <<>>
  /\ done = {}
  /\ probe = NoProbe

(***************************************************************************)
(* Actions                                                                 *)
(***************************************************************************)
\* The payloads of the publish calls of an outcome.
RECURSIVE PublishedBy(_)
PublishedBy(calls) ==
  IF calls = <<>> THEN <<>>
  ELSE (IF Head(calls).op = "publish" THEN <<Head(calls).payload>> ELSE <<>>)
       \o PublishedBy(Tail(calls))

\* One invocation of POST /custom-bot/events.  clock: what Date.now() reads, in
\* seconds; publishOk: whether qstash.publish resolves.  A published message is tagged with the event_id of its callback
\* and the number of the invocation; the code sees neither.
WebhookEvents(req, clock, publishOk) ==
  LET out == HandleEvents(env, req, clock, publishOk)
      sent == IF publishOk THEN PublishedBy(out.calls) ELSE <<>>
  IN /\ hook' = [n |-> hook.n + 1, req |-> req, clock |-> clock,
                  publishOk |-> publishOk, out |-> out]
     /\ queue' = queue \cup { [payload |-> sent[i], eid |-> req.body.event_id,
                               id |-> hook.n + 1] : i \in 1..Len(sent) }
     /\ UNCHANGED <<env, workers, proc, posts, done, probe>>

\* The invocations of the two endpoints so far.
Calls == hook.n + proc.n + Cardinality(workers)

\* QStash takes a response of 200 as the acknowledgement of a message and keeps
\* the message for another delivery otherwise.
Acknowledge(q, m, status) == IF status = 200 THEN q \ {m} ELSE q

Finish(w, status) ==
  [n |-> proc.n + 1, msg |-> w.msg, calls |-> w.calls, status |-> status,
   late |-> w.late, retry |-> w.retry]

\* A process-message handler with a guard that answers 200 at once, without
\* generating, for a message whose last attempt has just finished.
Deliver_Guarded(m) ==
  /\ m \in queue
  /\ Cardinality(workers) < MaxWorkers
  /\ Calls < MaxCalls
  /\ IF proc.n > 0 /\ proc.msg = m
     THEN /\ proc' = [n |-> proc.n + 1, msg |-> m, calls |-> <<>>, status |-> 200,
                      late |-> m.eid \in done, retry |-> proc.status = 500]
          /\ queue' = queue \ {m}
          /\ UNCHANGED <<env, hook, workers, posts, done, probe>>
     ELSE /\ workers' = workers \cup
               { [k |-> proc.n + Cardinality(workers) + 1, pc |-> "generate", msg |-> m,
                  late |-> m.eid \in done, retry |-> FALSE, text |-> <<>>,
                  calls |-> <<GenerateCall(Prompt(m.payload))>>] }
          /\ UNCHANGED <<env, hook, queue, proc, posts, done, probe>>

\* QStash calls POST /api/process-message with a message it holds; the handler
\* parses the event and awaits generateText.  k numbers the invocation.
Deliver(m) ==
  /\ m \in queue
  /\ Cardinality(workers) < MaxWorkers
  /\ Calls < MaxCalls
  /\ workers' = workers \cup
       { [k |-> proc.n + Cardinality(workers) + 1, pc |-> "generate", msg |-> m,
          late |-> m.eid \in done,
          retry |-> proc.n > 0 /\ proc.msg = m /\ proc.status = 500,
          text |-> <<>>,
          calls |-> <<GenerateCall(Prompt(m.payload))>>] }
  /\ UNCHANGED <<env, hook, queue, proc, posts, done, probe>>

\* generateText resolves with a text: the handler awaits chat.postMessage.
Generated(w) ==
  /\ w \in workers /\ w.pc = "generate"
  /\ workers' = (workers \ {w}) \cup
       { [w EXCEPT !.pc = "post", !.text = Poem(w.k),
                   !.calls = Append(@, PostCall(w.msg.payload.channel, Poem(w.k)))] }
  /\ UNCHANGED <<env, hook, queue, proc, posts, done, probe>>

\* A handler that calls generateText again when it rejects.
GenerateFailed_RetryInline(w) ==
  /\ w \in workers /\ w.pc = "generate"
  /\ workers' = (workers \ {w}) \cup
       { [w EXCEPT !.calls = Append(@, GenerateCall(Prompt(w.msg.payload)))] }
  /\ UNCHANGED <<env, hook, queue, proc, posts, done, probe>>

\* A handler that posts an apology when generateText rejects.
GenerateFailed_PostsFallback(w) ==
  /\ w \in workers /\ w.pc = "generate"
  /\ workers' = (workers \ {w}) \cup
       { [w EXCEPT !.pc = "post", !.text = <<"s", "o", "r", "r", "y">>,
                   !.calls = Append(@, PostCall(w.msg.payload.channel,
                                                <<"s", "o", "r", "r", "y">>))] }
  /\ UNCHANGED <<env, hook, queue, proc, posts, done, probe>>

\* generateText rejects: the catch block answers 500; QStash keeps the message.
GenerateFailed(w) ==
  /\ w \in workers /\ w.pc = "generate"
  /\ proc' = Finish(w, CatchResponse("generateText"))
  /\ workers' = workers \ {w}
  /\ queue' = Acknowledge(queue, w.msg, CatchResponse("generateText"))
  /\ UNCHANGED <<env, hook, posts, done, probe>>

\* chat.postMessage ends: "ok" posts the message and the handler answers 200,
\* which QStash takes as the acknowledgement; otherwise the handler answers 500.
Posted(w, posted) ==
  /\ w \in workers /\ w.pc = "post"
  /\ proc' = Finish(w, AfterPost(posted))
  /\ workers' = workers \ {w}
  /\ IF posted = "ok"
     THEN /\ posts' = Append(posts, [channel |-> w.calls[Len(w.calls)].channel,
                                     text |-> w.calls[Len(w.calls)].text,
                                     eid |-> w.msg.eid, late |-> w.late])
          /\ done' = done \cup {w.msg.eid}
     ELSE UNCHANGED <<posts, done>>
  /\ queue' = Acknowledge(queue, w.msg, AfterPost(posted))
  /\ UNCHANGED <<env, hook, probe>>

Receive == Calls < MaxCalls /\ \E req \in SysRequests, clock \in Clock, ok \in BOOLEAN :
                                 WebhookEvents(req, clock, ok)
Start == \E m \in queue : Deliver(m)
Generate == \E w \in workers : Generated(w)
GenerateFail == \E w \in workers : GenerateFailed(w)
Post == \E w \in workers, posted \in {"ok", "not_ok", "throw"} : Posted(w, posted)

Next == Receive \/ Start \/ Generate \/ GenerateFail \/ Post

Spec == Init /\ [][Next]_vars

\* One webhook invocation on its own, over every request of HookRequests.  The
\* handler reads nothing an earlier invocation wrote, so one invocation per
\* behaviour covers what any invocation does.
HookOnce == hook.n = 0 /\ \E req \in HookRequests, clock \in Clock, ok \in BOOLEAN :
                                  WebhookEvents(req, clock, ok)
HookSpec == Init /\ [][HookOnce]_vars

\* Any client that can reach the service posts an event of its own making to
\* /api/process-message: the route is registered like the others and the handler
\* reads the body and nothing else of the request.  The message is tagged with
\* no webhook invocation (id 0) and no event.
DirectPayloads == { Event("message", "im", Absent, Absent, Some(<<"x">>), "C9") }
DirectCall(payload) ==
  /\ Cardinality(workers) < MaxWorkers
  /\ Calls < MaxCalls
  /\ workers' = workers \cup
       { [k |-> proc.n + Cardinality(workers) + 1, pc |-> "generate",
          msg |-> [payload |-> payload, eid |-> "", id |-> 0],
          late |-> FALSE, retry |-> FALSE, text |-> <<>>,
          calls |-> <<GenerateCall(Prompt(payload))>>] }
  /\ UNCHANGED <<env, hook, queue, proc, posts, done, probe>>
Direct == \E payload \in DirectPayloads : DirectCall(payload)

\* Slack sends the bot's own post back to the webhook, signed: an event in the
\* channel of the post, with the text of the post and the bot's bot_id; a
\* message event, or in a channel that is not a direct conversation an
\* app_mention event when the text mentions the bot.
EchoIds == <<"B1", "B2", "B3", "B4", "B5", "B6">>
EchoRequest(i, type) ==
  EventCallback("valid", EchoIds[i],
                Event(type, IF posts[i].channel = "C1" THEN "im" ELSE "channel",
                      Some(<<"B">>), Absent, Some(posts[i].text), posts[i].channel))
EchoBack ==
  /\ Calls < MaxCalls
  /\ \E i \in 1..Len(posts), type \in {"message", "app_mention"}, clock \in Clock :
       /\ i <= Len(EchoIds)
       /\ type = "app_mention" => posts[i].channel # "C1"
       /\ WebhookEvents(EchoRequest(i, type), clock, TRUE)

\* The pipeline with the process-message route open to any caller.
OpenNext == Next \/ Direct
OpenSpec == Init /\ [][OpenNext]_vars

\* The pipeline with the bot's posts coming back as events.
LoopNext == Next \/ EchoBack
LoopSpec == Init /\ [][LoopNext]_vars

\* The pipeline under retry: QStash delivers a message it holds again and again
\* until an invocation answers 200; generateText and chat.postMessage settle,
\* and fail only finitely often.  Within the budget of MaxCalls invocations that
\* is: a step that costs an invocation or gives one up (a further webhook
\* request, a second delivery of a message already in flight, a failure) is
\* taken only while the budget left covers every message still to be delivered.
Needed == Cardinality({m \in queue : \A w \in workers : w.msg # m})
Room(extra) == MaxCalls - Calls >= Needed + extra

LiveReceive == Room(2) /\ Receive
LiveStart == \E m \in queue : Deliver(m) /\ ((\E w \in workers : w.msg = m) => Room(1))
LiveGenerateFail == Room(1) /\ GenerateFail
PostOk == \E w \in workers : Posted(w, "ok")
LivePostFail == Room(1) /\ \E w \in workers, posted \in {"not_ok", "throw"} : Posted(w, posted)

LiveNext ==
  LiveReceive \/ LiveStart \/ Generate \/ LiveGenerateFail \/ PostOk \/ LivePostFail

LiveSpec ==
  /\ Init
  /\ [][LiveNext]_vars
  /\ WF_vars(LiveStart)
  /\ WF_vars(Generate)
  /\ WF_vars(PostOk)

\* verifySlackRequest on its own, over the inputs of VerifyInputs.
Timestamps ==
  {Absent, Some(<<>>), Some(<<"x">>), Some(Fresh \o <<"x">>), Some(<<" ">> \o Fresh),
   Some(<<"-">> \o Fresh), Some(<<"n", "u", "l", "l">>)}
  \cup { Some(Digits(t)) : t \in (Now0 - MaxSkew)..(Now0 + MaxSkew) }
\* The signature headers tried for a request: none, empty, Slack's signature of
\* the request, and Slack's signature with the secret, the timestamp or the body
\* changed, its first digit changed, its prefix dropped.
Signatures(secret, ts, rawBody) ==
  LET good == SlackSignature(secret, Template(ts), rawBody)
  IN {Absent, Some(<<>>), Some(good), Some(SubSeq(good, 4, Len(good))),
      Some([good EXCEPT ![4] = IF @ = "0" THEN "1" ELSE "0"])}
     \cup { Some(SlackSignature(k, Template(ts), rawBody)) : k \in {SlackSecret, OtherSecret} }
     \cup { Some(SlackSignature(secret, Template(ts), b)) : b \in RawBodies }
     \cup { Some(SlackSignature(secret, Fresh, rawBody)) }
VerifyInit ==
  /\ env = GoodEnv
  /\ hook = NoHook
  /\ queue = {}
  /\ workers = {}
  /\ proc = NoProc
  /\ posts = <<>>
  /\ done = {}
  /\ \E ts \in Timestamps, b \in RawBodies, k \in {SlackSecret, OtherSecret},
        t \in Clock :
       \E sig \in Signatures(k, ts, b) :
         probe = [timestamp |-> ts, signature |-> sig, rawBody |-> b,
                  signingSecret |-> k, now |-> t, called |-> FALSE, again |-> FALSE,
                  result |-> FALSE]
VerifyCalled ==
  /\ ~probe.called
  /\ probe' = [probe EXCEPT !.called = TRUE,
                 !.result = verifySlackRequest(probe.timestamp, probe.signature,
                                               probe.rawBody, probe.signingSecret, probe.now)]
  /\ UNCHANGED <<env, hook, queue, workers, proc, posts, done>>
\* A second call with the same request, secret and clock reading.
VerifyAgain ==
  /\ probe.called /\ ~probe.again
  /\ probe' = [probe EXCEPT !.again = TRUE,
                 !.result = verifySlackRequest(probe.timestamp, probe.signature,
                                               probe.rawBody, probe.signingSecret, probe.now)]
  /\ UNCHANGED <<env, hook, queue, workers, proc, posts, done>>
VerifyNext == VerifyCalled \/ VerifyAgain
VerifySpec == VerifyInit /\ [][VerifyNext]_vars


(***************************************************************************)
(* Properties                                                              *)
(***************************************************************************)
Configured == Truthy(env.SLACK_SIGNING_SECRET) /\ Truthy(env.SLACK_BOT_TOKEN)

\* What verifySlackRequest returns for the request of the last webhook invocation.
HookVerify ==
  verifySlackRequest(hook.req.timestamp, hook.req.signature, hook.req.rawBody,
                     env.SLACK_SIGNING_SECRET.val, hook.clock)

Ops(calls) == {calls[i].op : i \in 1..Len(calls)}
\* The messages the last webhook invocation put in the queue.
HookQueued == {m \in queue : m.id = hook.n}
HookEvent == hook.req.body.event

\* C1: a webhook request that is not a url_verification and for which
\* verifySlackRequest returns false is answered 401, and the invocation makes no
\* publish, generateText or chat.postMessage call and queues nothing; whatever
\* an invocation queues, verifySlackRequest returned true in that invocation.
C1_UnverifiedIsRejected ==
  hook.n > 0 =>
    /\ (Configured /\ hook.req.body.type # "url_verification" /\ ~HookVerify) =>
         /\ hook.out.status = 401
         /\ Ops(hook.out.calls) \cap {"publish", "generateText", "chat.postMessage"} = {}
         /\ HookQueued = {}
    /\ ("publish" \in Ops(hook.out.calls) \/ HookQueued # {}) =>
         /\ Configured
         /\ "verify" \in Ops(hook.out.calls)
         /\ HookVerify

C1_Witness ==
  /\ hook.n > 0 /\ Configured
  /\ hook.req = EventCallback("forged", "E1",
                               Event("message", "im", Absent, Absent, Some(Ocean), "C1"))
  /\ ~HookVerify
  /\ hook.out.status = 401
  /\ queue = {}

\* C2: once a process-message invocation for an event has finished with a
\* successful post, no invocation for the same event that starts later posts to
\* the channel again.
C2_NoPostAfterSuccess ==
  \A i \in 1..Len(posts) : ~posts[i].late

\* C3 as claimed: every url_verification request is answered 200 with the
\* challenge it carries, and verifySlackRequest is not called for it.
C3_ChallengeAlways ==
  (hook.n > 0 /\ hook.req.body.type = "url_verification") =>
    /\ hook.out.status = 200
    /\ hook.out.kind = "challenge"
    /\ hook.out.challenge = hook.req.body.challenge
    /\ "verify" \notin Ops(hook.out.calls)

\* C3 as amended: when the signing secret and the bot token are configured,
\* every url_verification request, whatever its signature headers, is answered
\* 200 with the challenge it carries and nothing else happens: verifySlackRequest
\* is not called and nothing is published.
C3_ChallengeWhenConfigured ==
  (hook.n > 0 /\ Configured /\ hook.req.body.type = "url_verification") =>
    /\ hook.out.status = 200
    /\ hook.out.kind = "challenge"
    /\ hook.out.challenge = hook.req.body.challenge
    /\ hook.out.calls = <<>>
    /\ HookQueued = {}

C3_Witness ==
  /\ hook.n > 0 /\ Configured
  /\ hook.req = UrlVerification("none")
  /\ hook.out.status = 200
  /\ hook.out.challenge = Some(Challenge)

\* The time a timestamp header of decimal digits denotes.
IsDecimal(s) == s # <<>> /\ \A i \in 1..Len(s) : IsDigit(s[i])
RECURSIVE DecimalValue(_)
DecimalValue(s) ==
  IF s = <<>> THEN 0
  ELSE 10 * DecimalValue(SubSeq(s, 1, Len(s) - 1)) + DigitValue(s[Len(s)])
Distance(a, b) == IF a >= b THEN a - b ELSE b - a

\* Whether the probe's signature is the one Slack computes for its timestamp
\* and body under its secret.
ProbeSigned ==
  /\ probe.timestamp.has /\ probe.signature.has
  /\ probe.signature.val =
       SlackSignature(probe.signingSecret, probe.timestamp.val, probe.rawBody)

\* C4: verifySlackRequest returns true if and only if both headers are present,
\* the timestamp is within 300 seconds of the current time, and the signature
\* header is Slack's signature of the timestamp and the body; so a signature
\* computed for another timestamp or body, or changed itself, is rejected.  A
\* timestamp counts as within the window when the number parseInt reads from it
\* is; one parseInt reads no number from is not.
C4_TrueIffSignedAndFresh ==
  probe.called =>
    (probe.result <=>
       /\ ProbeSigned
       /\ ~parseInt(probe.timestamp.val).nan
       /\ Distance(probe.now, parseInt(probe.timestamp.val).n) <= 300)

\* C5: a timestamp header more than 300 seconds before or after the current
\* time makes verifySlackRequest return false, whatever the signature.
C5_OutsideWindowRejected ==
  (/\ probe.called
   /\ probe.timestamp.has
   /\ IsDecimal(probe.timestamp.val)
   /\ Distance(probe.now, DecimalValue(probe.timestamp.val)) > 300)
  => ~probe.result

C5_Witness ==
  /\ probe.called
  /\ ProbeSigned
  /\ IsDecimal(probe.timestamp.val)
  /\ DecimalValue(probe.timestamp.val) = probe.now + 301
  /\ ~probe.result

\* C6: a request without its timestamp header or without its signature header
\* is not verified, and the webhook handler answers it 401 "invalid signature",
\* not a 5xx of an unhandled error.
C6_MissingHeaderIs401 ==
  (/\ hook.n > 0 /\ Configured
   /\ hook.req.body.type # "url_verification"
   /\ (~hook.req.timestamp.has \/ ~hook.req.signature.has))
  => /\ ~HookVerify
     /\ hook.out.status = 401
     /\ hook.out.kind = "invalid_signature"
     /\ HookQueued = {}

C6_Witness ==
  /\ hook.n > 0 /\ Configured
  /\ hook.req.body.type = "event_callback"
  /\ ~hook.req.timestamp.has /\ hook.req.signature.has
  /\ hook.out.status = 401

\* A webhook invocation whose request is an event callback that passed the
\* signature check.
VerifiedCallback ==
  /\ hook.n > 0 /\ Configured
  /\ hook.req.body.type = "event_callback"
  /\ HookVerify

\* A marker (bot_id, subtype) an event carries: a non-empty value.
Marked(x) == x.has /\ x.val # <<>>
NonBlank(text) == text.has /\ \E i \in 1..Len(text.val) : ~IsWhiteSpace(text.val[i])

\* t is s without its leading and trailing white space.
IsTrimOf(t, s) ==
  \E i \in 0..Len(s) : \E j \in i..Len(s) :
    /\ t = SubSeq(s, i + 1, j)
    /\ \A k \in 1..i : IsWhiteSpace(s[k])
    /\ \A k \in (j + 1)..Len(s) : IsWhiteSpace(s[k])
    /\ t # <<>> => (~IsWhiteSpace(t[1]) /\ ~IsWhiteSpace(t[Len(t)]))

\* Position k of s lies in a mention marker: a substring "<@", one or more
\* characters other than ">", ">".
InMarker(s, k) ==
  \E i \in 1..k : \E j \in k..Len(s) :
    /\ i + 2 < j
    /\ s[i] = "<" /\ s[i + 1] = "@" /\ s[j] = ">"
    /\ \A m \in (i + 2)..(j - 1) : s[m] # ">"
\* s without the characters of its mention markers, from position k on.
RECURSIVE Unmarked(_, _)
Unmarked(s, k) ==
  IF k > Len(s) THEN <<>>
  ELSE (IF InMarker(s, k) THEN <<>> ELSE <<s[k]>>) \o Unmarked(s, k + 1)

\* The texts of the payloads the last webhook invocation handed to qstash.publish.
HookPublishedTexts ==
  { hook.out.calls[i].payload.text : i \in {k \in 1..Len(hook.out.calls) : hook.out.calls[k].op = "publish"} }

\* C7: an event that carries a subtype or a bot_id is never published, whatever
\* its type and text.
C7_MarkedEventsIgnored ==
  (hook.n > 0 /\ (Marked(HookEvent.bot_id) \/ Marked(HookEvent.subtype)))
  => ("publish" \notin Ops(hook.out.calls) /\ HookQueued = {})

\* C8: a verified event callback whose event is of type message is handed to
\* qstash.publish if and only if its channel_type is "im", it has no bot_id, it
\* has no subtype and its text is not blank; it is then in the queue exactly
\* when the publish resolved (the handler answered 200).
C8_DirectMessageFilter ==
  (VerifiedCallback /\ HookEvent.type = "message") =>
    LET qualifies == /\ HookEvent.channel_type = "im"
                     /\ ~Marked(HookEvent.bot_id)
                     /\ ~Marked(HookEvent.subtype)
                     /\ NonBlank(HookEvent.text)
    IN /\ ("publish" \in Ops(hook.out.calls)) <=> qualifies
       /\ (HookQueued # {}) <=> (qualifies /\ hook.out.status = 200)

C8_Witness ==
  /\ VerifiedCallback
  /\ HookEvent = Event("message", "im", Absent, Absent, Some(Ocean), "C1")
  /\ \E m \in HookQueued : m.payload.channel = "C1"

\* C9 as claimed: the text of the payload published for a direct message is
\* the trimmed text of the event.
C9_PromptIsTrimmedText ==
  (VerifiedCallback /\ HookEvent.type = "message") =>
    \A t \in HookPublishedTexts : t.has /\ IsTrimOf(t.val, HookEvent.text.val)

\* C9 as amended: the text of the payload published for a direct message is
\* the text of the event as received, its leading and trailing white space
\* included (what is not blank is the trimmed text).
C9_PromptIsTextAsReceived ==
  (VerifiedCallback /\ HookEvent.type = "message") =>
    \A t \in HookPublishedTexts :
      /\ t = HookEvent.text
      /\ \E u \in {trim(t.val)} : u # <<>> /\ IsTrimOf(u, HookEvent.text.val)

C9_Witness ==
  /\ VerifiedCallback
  /\ HookEvent.type = "message"
  /\ HookEvent.text = Some(PaddedHi)
  /\ \E m \in HookQueued : m.payload.text = Some(PaddedHi)

\* C10: the text of the payload published for a mention is the text of the event
\* without any of its mention markers <@...>, trimmed: "<@BOT> <@BOT> hello"
\* is published as "hello", "<@U123> write about the sea" as "write about the sea".
C10_MentionPromptStripped ==
  (VerifiedCallback /\ HookEvent.type = "app_mention") =>
    /\ \A t \in HookPublishedTexts :
         t.has /\ IsTrimOf(t.val, Unmarked(HookEvent.text.val, 1))
    /\ HookEvent.text = Some(Hello2) => HookPublishedTexts = {Some(Hello)}
    /\ HookEvent.text = Some(Sea) => HookPublishedTexts = {Some(SeaPrompt)}

C10_Witness ==
  /\ VerifiedCallback
  /\ HookEvent.type = "app_mention"
  /\ HookEvent.text = Some(Hello2)
  /\ \E m \in HookQueued : m.payload.text = Some(Hello)

\* A text of white space alone (the empty text included).
Blank(s) == \A i \in 1..Len(s) : IsWhiteSpace(s[i])

\* C11: a verified mention whose text is mention markers and white space alone
\* is answered 200 {ok: true} and nothing is published: the signature check is
\* the handler's only call and nothing is queued.
C11_MentionOnlyIgnored ==
  (/\ VerifiedCallback
   /\ HookEvent.type = "app_mention"
   /\ HookEvent.text.has
   /\ Blank(Unmarked(HookEvent.text.val, 1)))
  => /\ hook.out.status = 200
     /\ hook.out.kind = "ok"
     /\ hook.out.calls = <<VerifyCall>>
     /\ HookQueued = {}

C11_Witness ==
  /\ VerifiedCallback
  /\ HookEvent.type = "app_mention"
  /\ HookEvent.text = Some(MentionOnly)
  /\ hook.out.status = 200
  /\ hook.out.calls = <<VerifyCall>>
  /\ queue = {}

\* The request of the last webhook invocation is one the handler has no use for:
\* not an event callback, a message outside a direct conversation, an event
\* that is neither a message nor a mention, a direct message with a bot_id, a
\* subtype or a blank text, a mention with nothing but markers and white space.
FilteredOut ==
  \/ hook.req.body.type # "event_callback"
  \/ HookEvent.type \notin {"message", "app_mention"}
  \/ /\ HookEvent.type = "message"
     /\ HookEvent.channel_type # "im"
  \/ /\ HookEvent.type = "message"
     /\ HookEvent.channel_type = "im"
     /\ (Marked(HookEvent.bot_id) \/ Marked(HookEvent.subtype) \/ ~NonBlank(HookEvent.text))
  \/ /\ HookEvent.type = "app_mention"
     /\ (~HookEvent.text.has \/ Blank(Unmarked(HookEvent.text.val, 1)))

\* A webhook invocation whose request passed the signature check.
VerifiedRequest ==
  /\ hook.n > 0 /\ Configured
  /\ hook.req.body.type # "url_verification"
  /\ HookVerify

\* C12: a verified request that is filtered out is answered 200 {ok: true} and
\* has no side effect: the handler calls nothing after the signature check,
\* nothing is queued, no process-message invocation runs and nothing is posted.
\* A verified request that is not filtered out is handed to qstash.publish.
C12_FilteredHasNoEffect ==
  VerifiedRequest =>
    IF FilteredOut
    THEN /\ hook.out.status = 200
         /\ hook.out.kind = "ok"
         /\ hook.out.calls = <<VerifyCall>>
         /\ queue = {} /\ workers = {} /\ proc = NoProc /\ posts = <<>>
    ELSE "publish" \in Ops(hook.out.calls)

C12_Witness ==
  /\ VerifiedRequest
  /\ HookEvent = Event("message", "channel", Absent, Absent, Some(PaddedHi), "C1")
  /\ hook.out.status = 200
  /\ hook.out.calls = <<VerifyCall>>
  /\ queue = {}

\* An environment variable that is not set, or set to the empty string.
Missing(x) == ~x.has \/ x.val = <<>>

\* C13: when the signing secret or the bot token is missing, every webhook
\* request is answered 500 "Missing env vars" and nothing else happens: no
\* challenge is answered, verifySlackRequest is not called, nothing is published.
C13_MissingEnvIs500 ==
  (hook.n > 0 /\ (Missing(env.SLACK_SIGNING_SECRET) \/ Missing(env.SLACK_BOT_TOKEN)))
  => /\ hook.out.status = 500
     /\ hook.out.kind = "missing_env"
     /\ hook.out.challenge = Absent
     /\ hook.out.calls = <<>>
     /\ queue = {}

C13_Witness ==
  /\ hook.n > 0
  /\ ~Missing(env.SLACK_SIGNING_SECRET) /\ Missing(env.SLACK_BOT_TOKEN)
  /\ hook.req = UrlVerification("none")
  /\ hook.out.status = 500
  /\ hook.out.challenge = Absent

\* C14: a webhook invocation whose qstash.publish call is rejected does not
\* answer 200 but 500; it calls neither generateText nor chat.postMessage, it
\* leaves nothing in the queue, and no process-message invocation ever runs
\* for it.
C14_PublishFailureIs5xx ==
  (hook.n > 0 /\ "publish" \in Ops(hook.out.calls) /\ ~hook.publishOk)
  => /\ hook.out.status # 200
     /\ hook.out.status \in 500..599
     /\ Ops(hook.out.calls) \cap {"generateText", "chat.postMessage"} = {}
     /\ HookQueued = {}
     /\ \A w \in workers : w.msg.id # hook.n
     /\ proc.msg.id # hook.n

C14_Witness ==
  /\ hook.n > 0 /\ ~hook.publishOk
  /\ HookEvent = DirectMessage
  /\ "publish" \in Ops(hook.out.calls)
  /\ hook.out.status = 500
  /\ HookQueued = {}

\* C15: a webhook invocation calls nothing but verifySlackRequest and
\* qstash.publish, and its step starts, advances or finishes no process-message
\* invocation and posts nothing; when it answers 200 for a qualifying event,
\* what it did is put the one published payload in the queue.  Generation and
\* posting are steps of process-message invocations alone.
C15_TwoPhaseDispatch ==
  [][ /\ (hook'.n # hook.n) =>
           /\ Ops(hook'.out.calls) \subseteq {"verify", "publish"}
           /\ workers' = workers /\ proc' = proc /\ posts' = posts
           /\ (hook'.out.status = 200 /\ "publish" \in Ops(hook'.out.calls)) =>
                \E m \in queue' \ queue :
                  /\ m.id = hook'.n
                  /\ PublishedBy(hook'.out.calls) = <<m.payload>>
      /\ (workers' # workers \/ proc' # proc \/ posts' # posts) => hook' = hook
    ]_vars

C15_Witness ==
  /\ hook.n > 0
  /\ hook.out.status = 200
  /\ hook.out.calls = <<VerifyCall, PublishCall(DirectMessage)>>
  /\ \E m \in HookQueued : m.payload = DirectMessage
  /\ workers = {} /\ proc = NoProc /\ posts = <<>>

\* C16: a process-message invocation answers 200 or 500, and 200 exactly when
\* chat.postMessage accepted its message (the message of its own post call is
\* the one added to the channel); QStash is told of success, and drops the
\* message, only then.  An invocation whose generateText or chat.postMessage
\* call threw, or whose post result carried no ok, answers 500, posts nothing
\* and leaves the message with QStash.
C16_SuccessOnlyWhenPosted ==
  [][ (proc'.n # proc.n) =>
        /\ proc'.status \in {200, 500}
        /\ (proc'.status = 200) <=>
             /\ Len(proc'.calls) = 2
             /\ Len(posts') = Len(posts) + 1
             /\ posts'[Len(posts')].text = proc'.calls[2].text
             /\ posts'[Len(posts')].channel = proc'.calls[2].channel
        /\ (proc'.status = 200) => queue' = queue \ {proc'.msg}
        /\ (proc'.status = 500) => (posts' = posts /\ queue' = queue)
    ]_vars

C16_Witness ==
  /\ proc.n > 0
  /\ proc.status = 500
  /\ Len(proc.calls) = 2
  /\ proc.calls[2].op = "chat.postMessage"
  /\ posts = <<>>
  /\ proc.msg \in queue

\* C17: an invocation that ends in a failure marks nothing: the message stays
\* with QStash and no event is recorded as done.  Every invocation, one for a
\* message whose last attempt failed included, calls generateText with the
\* prompt of its payload, and when that returns, chat.postMessage; none ends
\* without having called generateText.
C17_FailedStaysEligible ==
  [][ (proc'.n # proc.n) =>
        /\ proc'.calls # <<>>
        /\ proc'.calls[1] = GenerateCall(Prompt(proc'.msg.payload))
        /\ (proc'.status = 200) =>
             (Len(proc'.calls) = 2 /\ proc'.calls[2].op = "chat.postMessage")
        /\ (proc'.status # 200) =>
             (queue' = queue /\ done' = done /\ (proc'.msg \in queue => proc'.msg \in queue'))
    ]_vars

C17_Witness ==
  /\ proc.n > 1
  /\ proc.retry
  /\ proc.status = 200
  /\ Len(proc.calls) = 2
  /\ posts # <<>>
  /\ posts[Len(posts)].text = proc.calls[2].text

\* C18: every payload the webhook handler hands to qstash.publish carries the
\* event_id of the event callback it was made from, with the channel and the
\* text of the event.
C18_PayloadCarriesEventId ==
  VerifiedCallback =>
    \A i \in 1..Len(hook.out.calls) :
      hook.out.calls[i].op = "publish" =>
        /\ "event_id" \in DOMAIN hook.out.calls[i].payload
        /\ hook.out.calls[i].payload.event_id = hook.req.body.event_id
        /\ hook.out.calls[i].payload.channel = HookEvent.channel
        /\ hook.out.calls[i].payload.text.has

\* The channels of the events Slack sends under an event_id.
OriginChannels(eid) ==
  { r.body.event.channel :
      r \in {q \in SysRequests : q.body.type = "event_callback" /\ q.body.event_id = eid} }

\* C19: the chat.postMessage call of a process-message invocation, for a direct
\* message and for a mention alike, names the channel of the event its payload
\* was published for, and its text is the text generateText returned to that
\* invocation; the same holds of every message posted, and no two posts carry
\* the text of one generation.
C19_PostTargetsOrigin ==
  /\ \A w \in workers :
       w.pc = "post" =>
         /\ Len(w.calls) = 2
         /\ w.calls[1].op = "generateText"
         /\ w.calls[2].op = "chat.postMessage"
         /\ w.calls[2].channel \in OriginChannels(w.msg.eid)
         /\ w.calls[2].text = Poem(w.k)
  /\ Len(proc.calls) = 2 =>
       /\ proc.calls[2].op = "chat.postMessage"
       /\ proc.calls[2].channel \in OriginChannels(proc.msg.eid)
  /\ \A i \in 1..Len(posts) :
       /\ posts[i].channel \in OriginChannels(posts[i].eid)
       /\ \E k \in 1..MaxCalls : posts[i].text = Poem(k)
       /\ \A j \in 1..Len(posts) : posts[j].text = posts[i].text => j = i

C19_Witness ==
  /\ Len(posts) = 2
  /\ posts[1].eid = "E2" /\ posts[1].channel = "C2"
  /\ posts[2].eid = "E1" /\ posts[2].channel = "C1"

\* C20: under retry, every message a webhook invocation has put in the queue
\* is eventually the message of an invocation that generated, posted its text
\* to the channel and answered 200, whether or not the webhook is called again.
C20_PublishedEventuallyPosted ==
  \A i \in 1..MaxCalls :
    (\E m \in queue : m.id = i) ~>
      (/\ proc.msg.id = i
       /\ proc.status = 200
       /\ Len(proc.calls) = 2
       /\ posts # <<>>
       /\ posts[Len(posts)].text = proc.calls[2].text
       /\ posts[Len(posts)].channel = proc.msg.payload.channel)

C20_Witness ==
  /\ hook.n = 1
  /\ proc.n = 3
  /\ proc.retry
  /\ proc.status = 200
  /\ Len(posts) = 1
  /\ queue = {}

C22_OnlyPublishedPayloadsProcessed ==
  /\ \A w \in workers : w.msg.id \in 1..hook.n
  /\ proc.n > 0 => proc.msg.id \in 1..hook.n

\* C23: an event that carries the bot's marker because it is the bot's own
\* post coming back is never published, so no message in the queue and no post
\* stems from one.
C23_NoFeedbackLoop ==
  LET echoes == {EchoIds[i] : i \in 1..Len(EchoIds)}
  IN /\ (hook.n > 0 /\ hook.req.body.event_id \in echoes) =>
          ("publish" \notin Ops(hook.out.calls) /\ HookQueued = {})
     /\ \A m \in queue : m.eid \notin echoes
     /\ \A i \in 1..Len(posts) : posts[i].eid \notin echoes

\* How often a trace of outbound calls holds a call of an operation.
Count(calls, op) == Cardinality({i \in 1..Len(calls) : calls[i].op = op})

\* C24: the trace of a process-message invocation, in flight or finished and
\* whatever its calls returned, holds at most one generateText call and at most
\* one chat.postMessage call.
C24_NoInlineRetry ==
  \A t \in {w.calls : w \in workers} \cup {proc.calls} :
    /\ Count(t, "generateText") <= 1
    /\ Count(t, "chat.postMessage") <= 1
    /\ Len(t) <= 2

C24_Witness ==
  /\ proc.n = 1
  /\ proc.status = 500
  /\ Count(proc.calls, "generateText") = 1
  /\ Count(proc.calls, "chat.postMessage") = 1
  /\ proc.msg \in queue

\* C25: a webhook invocation makes at most one publish call; when it answers
\* 200 {ok: true} to a verified request that is not filtered out, it has made
\* exactly one, that publish resolved, and its payload is in the queue.
C25_PublishBeforeAcknowledge ==
  hook.n > 0 =>
    /\ Count(hook.out.calls, "publish") <= 1
    /\ (VerifiedRequest /\ ~FilteredOut /\ hook.out.status = 200) =>
         /\ hook.out.kind = "ok"
         /\ Count(hook.out.calls, "publish") = 1
         /\ hook.out.calls[Len(hook.out.calls)].op = "publish"
         /\ hook.publishOk
         /\ HookQueued = {[payload |-> hook.out.calls[Len(hook.out.calls)].payload,
                           eid |-> hook.req.body.event_id, id |-> hook.n]}

C25_Witness ==
  /\ VerifiedRequest /\ ~FilteredOut
  /\ HookEvent.type = "app_mention"
  /\ HookEvent.text = Some(Sea)
  /\ hook.out.status = 200
  /\ Cardinality(HookQueued) = 1

\* C26: an invocation that awaits generateText has made no chat.postMessage
\* call; it makes one when generateText has returned, with the text returned,
\* and when generateText fails it ends with 500 having made none, and nothing
\* is posted.
C26_PostOnlyAfterGeneration ==
  [][ \A w \in workers :
        (w.pc = "generate" /\ w \notin workers') =>
          /\ Count(w.calls, "chat.postMessage") = 0
          /\ IF \E v \in workers' : v.k = w.k
             THEN \A v \in workers' :
                    v.k = w.k =>
                      /\ v.pc = "post"
                      /\ v.text = Poem(w.k)
                      /\ v.calls = Append(w.calls, PostCall(w.msg.payload.channel, v.text))
             ELSE /\ proc'.msg = w.msg
                  /\ proc'.calls = w.calls
                  /\ proc'.status = 500
                  /\ posts' = posts
    ]_vars

C26_Witness ==
  /\ proc.n = 1
  /\ proc.status = 500
  /\ Count(proc.calls, "generateText") = 1
  /\ Count(proc.calls, "chat.postMessage") = 0
  /\ posts = <<>>

\* C27: with Slack's signature for its timestamp and body, verifySlackRequest
\* accepts a timestamp exactly 300 seconds before or after the current time
\* and rejects one 301 seconds before or after it.
C27_WindowInclusive ==
  (/\ probe.called
   /\ ProbeSigned
   /\ IsDecimal(probe.timestamp.val))
  => /\ Distance(probe.now, DecimalValue(probe.timestamp.val)) = 300 => probe.result
     /\ Distance(probe.now, DecimalValue(probe.timestamp.val)) = 301 => ~probe.result

C27_Witness ==
  /\ probe.called
  /\ ProbeSigned
  /\ IsDecimal(probe.timestamp.val)
  /\ DecimalValue(probe.timestamp.val) = probe.now - 300
  /\ probe.result

=============================================================================
